---- MODULE Spec2Model ----
(***************************************************************************)
(* Babbl front-end: the shortcut recorder (BabblShortcut), its key/mouse   *)
(* normalisation utilities, and the backend calls it awaits.               *)
(*                                                                         *)
(* One BabblShortcut component is mounted per binding id; each holds its   *)
(* own React state (editingShortcutId, keyPressed, recordedKeys,           *)
(* originalBinding).  Window events are delivered to the listeners of      *)
(* every component whose session is open.  An async handler that reaches   *)
(* an await becomes an entry of tasks; BackendReturn resumes it with the   *)
(* call's outcome, and it then runs to its next await or to its end.       *)
(***************************************************************************)
EXTENDS Integers, Sequences, FiniteSets, TLC

\* ------------------------------------------------------------------ bounds
\* Handlers that may be suspended at an await at the same time.
MaxTasks == 2
\* Editor clicks that reach startRecording in one run, when the user works
\* on both bindings (MaxStarts) and on one (MaxOwnStarts).
MaxStarts == 2
MaxOwnStarts == 1
\* Reset-button clicks in one run.
MaxResets == 1
\* Distinct keys and extra mouse buttons, Escape aside, the user operates in
\* one run.
MaxInputs == 2

\* ----------------------------------------------------------------- strings
\* JavaScript strings are TLA+ strings; characters are substrings of length 1.
LowerChars == "abcdefghijklmnopqrstuvwxyz"
UpperChars == "ABCDEFGHIJKLMNOPQRSTUVWXYZ"
DigitChars == "0123456789"

Ch(s, i) == SubSeq(s, i, i)

Rest(s, i) == SubSeq(s, i, Len(s))

IndexIn(ch, s) ==
  IF \E i \in 1..Len(s) : Ch(s, i) = ch
  THEN CHOOSE i \in 1..Len(s) : Ch(s, i) = ch
  ELSE 0

IsUpper(ch) == IndexIn(ch, UpperChars) > 0

IsLower(ch) == IndexIn(ch, LowerChars) > 0

IsDigit(ch) == IndexIn(ch, DigitChars) > 0

AllDigits(s) == \A i \in 1..Len(s) : IsDigit(Ch(s, i))

startsWith(s, p) == Len(s) >= Len(p) /\ SubSeq(s, 1, Len(p)) = p

LowerCh(ch) == IF IsUpper(ch) THEN Ch(LowerChars, IndexIn(ch, UpperChars)) ELSE ch

UpperCh(ch) == IF IsLower(ch) THEN Ch(UpperChars, IndexIn(ch, LowerChars)) ELSE ch

RECURSIVE toLowerCase(_)
toLowerCase(s) ==
  IF s = "" THEN "" ELSE LowerCh(Ch(s, 1)) \o toLowerCase(Rest(s, 2))

\* s.split(sep) for a one-character separator: the pieces, in order.
RECURSIVE SplitFrom(_, _, _)
SplitFrom(s, sep, acc) ==
  IF s = "" THEN <<acc>>
  ELSE IF Ch(s, 1) = sep THEN <<acc>> \o SplitFrom(Rest(s, 2), sep, "")
  ELSE SplitFrom(Rest(s, 2), sep, acc \o Ch(s, 1))

split(s, sep) == SplitFrom(s, sep, "")

\* parts.join(sep)
RECURSIVE join(_, _)
join(parts, sep) ==
  IF parts = <<>> THEN ""
  ELSE IF Len(parts) = 1 THEN parts[1]
  ELSE parts[1] \o sep \o join(Tail(parts), sep)

\* s.replace(/([a-z])([A-Z])/g, "$1 $2")
RECURSIVE CamelSpaced(_)
CamelSpaced(s) ==
  IF Len(s) < 2 THEN s
  ELSE IF IsLower(Ch(s, 1)) /\ IsUpper(Ch(s, 2))
       THEN Ch(s, 1) \o " " \o Ch(s, 2) \o CamelSpaced(Rest(s, 3))
       ELSE Ch(s, 1) \o CamelSpaced(Rest(s, 2))

Contains(seq, v) == \E i \in 1..Len(seq) : seq[i] = v

Without(seq, v) == SelectSeq(seq, LAMBDA k : k # v)

\* ---------------------------------------------------------------- keyboard
OSTypes == {"macos", "windows", "linux", "unknown"}

\* KeyboardEvent fields read by the code; "" is an absent code or key, and
\* 0 an absent keyCode or which.
KeyEvent(code, key, keyCode, which) ==
  [code |-> code, key |-> key, keyCode |-> keyCode, which |-> which]

getModifierName(baseModifier, osType) ==
  CASE baseModifier = "shift" -> "shift"
    [] baseModifier = "ctrl" -> IF osType = "macos" THEN "ctrl" ELSE "ctrl"
    [] baseModifier = "alt" -> IF osType = "macos" THEN "option" ELSE "alt"
    [] baseModifier = "meta" -> IF osType = "macos" THEN "command" ELSE "super"
    [] OTHER -> baseModifier

\* ModifierCodes with the right Alt key named after its AltGr legend.
ModifierCodes_AltGr(osType) ==
  [ShiftLeft |-> getModifierName("shift", osType),
   ShiftRight |-> getModifierName("shift", osType),
   ControlLeft |-> getModifierName("ctrl", osType),
   ControlRight |-> getModifierName("ctrl", osType),
   AltLeft |-> getModifierName("alt", osType),
   AltRight |-> "altgr",
   MetaLeft |-> getModifierName("meta", osType),
   MetaRight |-> getModifierName("meta", osType),
   OSLeft |-> getModifierName("meta", osType),
   OSRight |-> getModifierName("meta", osType)]

\* The modifier entries of modifierMap.
ModifierCodes(osType) ==
  [ShiftLeft |-> getModifierName("shift", osType),
   ShiftRight |-> getModifierName("shift", osType),
   ControlLeft |-> getModifierName("ctrl", osType),
   ControlRight |-> getModifierName("ctrl", osType),
   AltLeft |-> getModifierName("alt", osType),
   AltRight |-> getModifierName("alt", osType),
   MetaLeft |-> getModifierName("meta", osType),
   MetaRight |-> getModifierName("meta", osType),
   OSLeft |-> getModifierName("meta", osType),
   OSRight |-> getModifierName("meta", osType)]

\* The named-key entries of modifierMap.
NamedCodes ==
  [CapsLock |-> "caps lock",
   Tab |-> "tab",
   Enter |-> "enter",
   Space |-> "space",
   Backspace |-> "backspace",
   Delete |-> "delete",
   Escape |-> "esc",
   ArrowUp |-> "up",
   ArrowDown |-> "down",
   ArrowLeft |-> "left",
   ArrowRight |-> "right",
   Home |-> "home",
   End |-> "end",
   PageUp |-> "page up",
   PageDown |-> "page down",
   Insert |-> "insert",
   PrintScreen |-> "print screen",
   ScrollLock |-> "scroll lock",
   Pause |-> "pause",
   ContextMenu |-> "menu",
   NumpadMultiply |-> "numpad *",
   NumpadAdd |-> "numpad +",
   NumpadSubtract |-> "numpad -",
   NumpadDecimal |-> "numpad .",
   NumpadDivide |-> "numpad /",
   NumLock |-> "num lock"]

modifierMap(osType) == ModifierCodes(osType) @@ NamedCodes

\* The grave accent cannot be written in a TLA+ string literal; this
\* one-character stand-in, which no other key yields, takes its place.
GraveAccent == "~"

punctuationMap ==
  [Semicolon |-> ";",
   Equal |-> "=",
   Comma |-> ",",
   Minus |-> "-",
   Period |-> ".",
   Slash |-> "/",
   Backquote |-> GraveAccent,
   BracketLeft |-> "[",
   Backslash |-> "\\",
   BracketRight |-> "]",
   Quote |-> "'"]

keyMap(osType) ==
  [Control |-> IF osType = "macos" THEN "ctrl" ELSE "ctrl",
   Alt |-> IF osType = "macos" THEN "option" ELSE "alt",
   Shift |-> "shift",
   Meta |-> IF osType = "macos" THEN "command"
            ELSE IF osType = "windows" THEN "win" ELSE "super",
   OS |-> IF osType = "macos" THEN "command"
          ELSE IF osType = "windows" THEN "win" ELSE "super",
   CapsLock |-> "caps lock",
   ArrowUp |-> "up",
   ArrowDown |-> "down",
   ArrowLeft |-> "left",
   ArrowRight |-> "right",
   Escape |-> "esc",
   Blank |-> "space"]

\* keyMap is keyed by " " for the space bar; record fields cannot be " ".
KeyMapField(key) == IF key = " " THEN "Blank" ELSE IF key = "Blank" THEN "" ELSE key

\* getKeyName looking at the logical key before the physical code.
getKeyName_KeyFirst(e, osType) ==
  IF e.key # "" THEN
    IF KeyMapField(e.key) \in DOMAIN keyMap(osType)
      THEN keyMap(osType)[KeyMapField(e.key)]
      ELSE toLowerCase(e.key)
  ELSE IF e.code # "" THEN toLowerCase(e.code)
  ELSE "unknown-" \o ToString(IF e.keyCode # 0 THEN e.keyCode ELSE e.which)

getKeyName(e, osType) ==
  IF e.code # "" THEN
    LET code == e.code IN
    IF Len(code) >= 2 /\ Ch(code, 1) = "F" /\ AllDigits(Rest(code, 2))
      THEN toLowerCase(code)
    ELSE IF Len(code) = 4 /\ startsWith(code, "Key") /\ IsUpper(Ch(code, 4))
      THEN toLowerCase(Rest(code, 4))
    ELSE IF Len(code) = 6 /\ startsWith(code, "Digit") /\ IsDigit(Ch(code, 6))
      THEN Rest(code, 6)
    ELSE IF Len(code) = 7 /\ startsWith(code, "Numpad") /\ IsDigit(Ch(code, 7))
      THEN toLowerCase("numpad " \o Rest(code, 7))
    ELSE IF code \in DOMAIN modifierMap(osType)
      THEN modifierMap(osType)[code]
    ELSE IF code \in DOMAIN punctuationMap
      THEN punctuationMap[code]
    ELSE CamelSpaced(toLowerCase(code))
  ELSE IF e.key # "" THEN
    IF KeyMapField(e.key) \in DOMAIN keyMap(osType)
      THEN keyMap(osType)[KeyMapField(e.key)]
      ELSE toLowerCase(e.key)
  ELSE "unknown-" \o ToString(IF e.keyCode # 0 THEN e.keyCode ELSE e.which)

normalizeKey(key) ==
  IF startsWith(key, "left ") \/ startsWith(key, "right ")
  THEN LET parts == split(key, " ")
       IN IF Len(parts) = 2 THEN parts[2] ELSE key
  ELSE key

getMouseButtonName(button) ==
  CASE button = 0 -> "mouseleft"
    [] button = 1 -> "mousemiddle"
    [] button = 2 -> "mouseright"
    [] button = 3 -> "mouse4"
    [] button = 4 -> "mouse5"
    [] OTHER -> "mouse" \o ToString(button + 1)

\* ---------------------------------------------------------------- recorder
\* Binding ids; one BabblShortcut component is mounted for each.
IdSeq == <<"transcribe", "cancel">>

Ids == {IdSeq[i] : i \in 1..Len(IdSeq)}

\* editingShortcutId === null
NULL == "null"

\* The default chord resetBinding restores, and the chords a binding may hold
\* when the settings screen opens ("" is a binding with no chord).
DefaultBinding == "ctrl+space"

InitBindings ==
  {[transcribe |-> "f5", cancel |-> ""], [transcribe |-> "", cancel |-> "f5"]}

\* Keys and mouse buttons the user operates while the screen is open.
RecKeys ==
  {KeyEvent("ControlLeft", "Control", 17, 17),
   KeyEvent("ControlRight", "Control", 17, 17),
   KeyEvent("KeyA", "a", 65, 65),
   KeyEvent("Escape", "Escape", 27, 27)}

RecButtons == {0, 1, 2, 3, 5}

FewKeys == {e \in RecKeys : e.code \in {"KeyA", "Escape"}}

OneKey == {e \in RecKeys : e.code = "KeyA"}

EscapeKey == {e \in RecKeys : e.code = "Escape"}

\* Click targets: a binding's editor box, its reset button, anywhere else.
Targets ==
  {<<"editor", c>> : c \in Ids} \cup {<<"reset", c>> : c \in Ids}
    \cup {<<"outside", NULL>>}

OwnTargets == {<<"editor", IdSeq[1]>>, <<"outside", NULL>>}

VARIABLES
  bindings,         \* settings store: id -> current_binding
  osType,           \* useState<OSType>, after the detection effect
  editing,          \* per component: editingShortcutId
  keyPressed,       \* per component: keyPressed
  recordedKeys,     \* per component: recordedKeys
  originalBinding,  \* per component: originalBinding
  tasks,            \* async handlers suspended at an await
  held,             \* keys (by code) and extra mouse buttons physically down
  used,             \* keys and extra buttons operated so far in this run
  starts,           \* startRecording calls so far
  resets,           \* resetBinding calls so far
  last,             \* the event or continuation that produced this state
  sess,             \* per component: the key history of its open session
  probe,            \* the utility function last applied, its input and output
  ui                \* the other components: mounts and event subscriptions

vars ==
  <<bindings, osType, editing, keyPressed, recordedKeys, originalBinding,
    tasks, held, used, starts, resets, last, sess, probe, ui>>

Call(op, id, val) == [op |-> op, id |-> id, val |-> val]

Issued(op, val) == [op |-> op, val |-> val, res |-> "pending"]

NoTask ==
  [comp |-> NULL, kind |-> "none", pc |-> "done", id |-> NULL, orig |-> "",
   val |-> "", hist |-> <<>>, toasts |-> <<>>, escaped |-> FALSE]

\* A handler of component c suspended at its first await, on call op(id, val).
NewTask(c, kind, pc, id, orig, op, val) ==
  [comp |-> c, kind |-> kind, pc |-> pc, id |-> id, orig |-> orig,
   val |-> val, hist |-> <<Issued(op, val)>>, toasts |-> <<>>,
   escaped |-> FALSE]

\* A window event as remembered in last: arg is the key code or the button
\* index.  Only SpecRepeat and SpecMouse remember events.
Event(op, arg, repeat) == [op |-> op, arg |-> arg, repeat |-> repeat]

NoEvent == Event("none", "", FALSE)

\* What is remembered of the step that produced the current state: the
\* event, the backend calls the step issued and the sessions that were open
\* when it issued them, and the handler that ran to its end in it (NoTask
\* if none did).
NoLast == [ev |-> NoEvent, calls |-> <<>>, open |-> {}, task |-> NoTask]

Open == {c \in Ids : editing[c] # NULL}

\* What one listener invocation does to its component: the new keyPressed
\* and recordedKeys, whether the session is closed in the same turn, the
\* handler left suspended at an await (if any) and the backend calls issued.
Effect(kp, rk, end, spawn, calls) ==
  [kp |-> kp, rk |-> rk, end |-> end, spawn |-> spawn, calls |-> calls]

NoEffect(c) == Effect(keyPressed[c], recordedKeys[c], FALSE, <<>>, <<>>)

\* The cancel body that restores the snapshot whether it is empty or not.
CancelEffect_AlwaysWrites(c, kind, awaited) ==
  IF editing[c] # NULL
  THEN Effect(keyPressed[c], recordedKeys[c], FALSE,
              <<NewTask(c, kind, "update", editing[c], originalBinding[c],
                        "updateBinding", originalBinding[c])>>,
              <<Call("updateBinding", editing[c], originalBinding[c])>>)
  ELSE Effect(<<>>, <<>>, TRUE, <<>>, <<>>)

\* The cancel body shared by the Escape branch and handleClickOutside;
\* awaited tells whether the no-snapshot resume is awaited.
CancelEffect(c, kind, awaited) ==
  IF editing[c] # NULL /\ originalBinding[c] # ""
  THEN Effect(keyPressed[c], recordedKeys[c], FALSE,
              <<NewTask(c, kind, "update", editing[c], originalBinding[c],
                        "updateBinding", originalBinding[c])>>,
              <<Call("updateBinding", editing[c], originalBinding[c])>>)
  ELSE IF editing[c] # NULL
  THEN IF awaited
       THEN Effect(keyPressed[c], recordedKeys[c], FALSE,
                   <<NewTask(c, kind, "resume", editing[c], originalBinding[c],
                             "resumeBinding", "")>>,
                   <<Call("resumeBinding", editing[c], "")>>)
       ELSE Effect(<<>>, <<>>, TRUE, <<>>,
                   <<Call("resumeBinding", editing[c], "")>>)
  ELSE Effect(<<>>, <<>>, TRUE, <<>>, <<>>)

\* Pressing a token: added to keyPressed unless held, and then to
\* recordedKeys unless recorded.
PressEffect(c, key) ==
  IF ~Contains(keyPressed[c], key)
  THEN Effect(Append(keyPressed[c], key),
              IF ~Contains(recordedKeys[c], key)
              THEN Append(recordedKeys[c], key) ELSE recordedKeys[c],
              FALSE, <<>>, <<>>)
  ELSE NoEffect(c)

\* Releasing a token that commits whatever is still held.
ReleaseEffect_CommitsEarly(c, key, kind) ==
  LET updatedKeyPressed == Without(keyPressed[c], key)
      newShortcut == join(recordedKeys[c], "+")
  IN IF Len(recordedKeys[c]) > 0
        /\ editing[c] # NULL /\ editing[c] \in DOMAIN bindings
     THEN Effect(updatedKeyPressed, recordedKeys[c], FALSE,
                 <<NewTask(c, kind, "update", editing[c], originalBinding[c],
                           "updateBinding", newShortcut)>>,
                 <<Call("updateBinding", editing[c], newShortcut)>>)
     ELSE Effect(updatedKeyPressed, recordedKeys[c], FALSE, <<>>, <<>>)

\* Releasing a token: removed from keyPressed; the commit starts when the
\* closure's keyPressed without it is empty and recordedKeys is not.
ReleaseEffect(c, key, kind) ==
  LET updatedKeyPressed == Without(keyPressed[c], key)
      newShortcut == join(recordedKeys[c], "+")
  IN IF Len(updatedKeyPressed) = 0 /\ Len(recordedKeys[c]) > 0
        /\ editing[c] # NULL /\ editing[c] \in DOMAIN bindings
     THEN Effect(updatedKeyPressed, recordedKeys[c], FALSE,
                 <<NewTask(c, kind, "update", editing[c], originalBinding[c],
                           "updateBinding", newShortcut)>>,
                 <<Call("updateBinding", editing[c], newShortcut)>>)
     ELSE Effect(updatedKeyPressed, recordedKeys[c], FALSE, <<>>, <<>>)

\* handleKeyDown with the Escape branch ahead of the auto-repeat check.
handleKeyDown_EscapeFirst(c, e, repeat) ==
  IF e.key = "Escape" THEN CancelEffect(c, "cancelKey", TRUE)
  ELSE IF repeat THEN NoEffect(c)
  ELSE PressEffect(c, normalizeKey(getKeyName(e, osType)))

handleKeyDown(c, e, repeat) ==
  IF repeat THEN NoEffect(c)
  ELSE IF e.key = "Escape" THEN CancelEffect(c, "cancelKey", TRUE)
  ELSE PressEffect(c, normalizeKey(getKeyName(e, osType)))

handleKeyUp(c, e) ==
  ReleaseEffect(c, normalizeKey(getKeyName(e, osType)), "commitKey")

\* handleMouseDown reserving only the left and middle buttons.
handleMouseDown_TwoReserved(c, button) ==
  IF button < 2 THEN NoEffect(c)
  ELSE PressEffect(c, getMouseButtonName(button))

handleMouseDown(c, button) ==
  IF button < 3 THEN NoEffect(c)
  ELSE PressEffect(c, getMouseButtonName(button))

handleMouseUp(c, button) ==
  IF button < 3 THEN NoEffect(c)
  ELSE ReleaseEffect(c, getMouseButtonName(button), "commitMouse")

\* activeElement.contains(e.target): only the component's own editor box.
handleClickOutside(c, target) ==
  IF target # <<"editor", c>>
  THEN CancelEffect(c, "cancelClick", FALSE)
  ELSE NoEffect(c)

\* The listeners exist only while the component's session is open.
Listening(c) == editing[c] # NULL

RECURSIVE Flatten(_)
Flatten(ss) == IF ss = <<>> THEN <<>> ELSE Head(ss) \o Flatten(Tail(ss))

Spawned(eff) == Flatten([i \in 1..Len(IdSeq) |-> eff[IdSeq[i]].spawn])

IssuedBy(eff) == Flatten([i \in 1..Len(IdSeq) |-> eff[IdSeq[i]].calls])

\* The key history of a session, kept for the properties only: down lists
\* the codes pressed since the session opened, in order, while the session
\* is "pressing" distinct keys and then "releasing" them; any other event
\* makes it "mixed" for good.  commits counts the commits it started.
NoSession == [down |-> <<>>, phase |-> "none", commits |-> 0]

NewSession == [down |-> <<>>, phase |-> "pressing", commits |-> 0]

Mixed(h) == [h EXCEPT !.down = <<>>, !.phase = "mixed"]

TrackKeyDown(h, e, repeat) ==
  IF repeat THEN h
  ELSE IF h.phase = "pressing" /\ e.key # "Escape" /\ ~Contains(h.down, e.code)
    THEN [h EXCEPT !.down = Append(h.down, e.code)]
  ELSE Mixed(h)

TrackKeyUp(h, e) ==
  IF h.phase \in {"pressing", "releasing"} /\ Contains(h.down, e.code)
    THEN [h EXCEPT !.phase = "releasing"]
  ELSE Mixed(h)

TrackMouse(h, button) == IF button < 3 THEN h ELSE Mixed(h)

TrackClick(h, c, target) == IF target = <<"editor", c>> THEN h ELSE Mixed(h)

IsCommit(t) == t.kind \in {"commitKey", "commitMouse"}

IsCancel(t) == t.kind \in {"cancelKey", "cancelClick"}

\* One window event: eff[c] is what c's listener does (NoEffect if c has
\* none); first are the handlers and calls started before the listeners ran.
Deliver(eff, first, firstCalls, ev, trk) ==
  LET calls == firstCalls \o IssuedBy(eff) IN
  /\ Len(tasks) + Len(first) + Len(Spawned(eff)) <= MaxTasks
  /\ keyPressed' = [c \in Ids |-> eff[c].kp]
  /\ recordedKeys' = [c \in Ids |-> eff[c].rk]
  /\ editing' = [c \in Ids |-> IF eff[c].end THEN NULL ELSE editing[c]]
  /\ originalBinding' =
       [c \in Ids |-> IF eff[c].end THEN "" ELSE originalBinding[c]]
  /\ tasks' = tasks \o first \o Spawned(eff)
  /\ sess' = [c \in Ids |->
               IF eff[c].end \/ ~Listening(c) THEN NoSession
               ELSE [trk[c] EXCEPT !.commits =
                       @ + Len(SelectSeq(eff[c].spawn, IsCommit))]]
  /\ probe' = probe
  /\ ui' = ui
  /\ last' = [NoLast EXCEPT !.ev = ev, !.calls = calls,
                            !.open = IF calls = <<>> THEN {} ELSE Open]

\* The name under which a mouse button is tracked as physically down.
ButtonInput(button) == "button" \o ToString(button)

\* The user operates input i: within the bound on distinct inputs.
Uses(i) ==
  /\ Cardinality(used \cup {i}) <= MaxInputs
  /\ used' = used \cup {i}

KeyDown(e, repeat, seen) ==
  /\ repeat <=> e.code \in held
  /\ IF e.code = "Escape" THEN used' = used ELSE Uses(e.code)
  /\ Deliver([c \in Ids |-> IF Listening(c) THEN handleKeyDown(c, e, repeat)
                            ELSE NoEffect(c)],
             <<>>, <<>>,
             IF seen THEN Event("keydown", e.code, repeat) ELSE NoEvent,
             [c \in Ids |-> TrackKeyDown(sess[c], e, repeat)])
  /\ held' = held \cup {e.code}
  /\ UNCHANGED <<bindings, osType, starts, resets>>

KeyUp(e, seen) ==
  /\ e.code \in held
  /\ Deliver([c \in Ids |-> IF Listening(c) THEN handleKeyUp(c, e)
                            ELSE NoEffect(c)],
             <<>>, <<>>, IF seen THEN Event("keyup", e.code, FALSE) ELSE NoEvent,
             [c \in Ids |-> TrackKeyUp(sess[c], e)])
  /\ held' = held \ {e.code}
  /\ UNCHANGED <<bindings, osType, used, starts, resets>>

MouseDown(button, seen) ==
  /\ ButtonInput(button) \notin held
  /\ IF button < 3 THEN used' = used ELSE Uses(ButtonInput(button))
  /\ Deliver([c \in Ids |-> IF Listening(c) THEN handleMouseDown(c, button)
                            ELSE NoEffect(c)],
             <<>>, <<>>, IF seen THEN Event("mousedown", button, FALSE) ELSE NoEvent,
             [c \in Ids |-> TrackMouse(sess[c], button)])
  /\ held' = IF button < 3 THEN held ELSE held \cup {ButtonInput(button)}
  /\ UNCHANGED <<bindings, osType, starts, resets>>

MouseUp(button, seen) ==
  /\ button < 3 \/ ButtonInput(button) \in held
  /\ Deliver([c \in Ids |-> IF Listening(c) THEN handleMouseUp(c, button)
                            ELSE NoEffect(c)],
             <<>>, <<>>, IF seen THEN Event("mouseup", button, FALSE) ELSE NoEvent,
             [c \in Ids |-> TrackMouse(sess[c], button)])
  /\ held' = held \ {ButtonInput(button)}
  /\ UNCHANGED <<bindings, osType, used, starts, resets>>

\* isUpdating("binding_<id>"): a write of that binding is in flight.
isUpdating(id) ==
  \E i \in 1..Len(tasks) :
    /\ tasks[i].id = id
    /\ tasks[i].pc \in {"update", "revert", "reset"}

\* startRecording(id) of component c, up to its await.
startRecording(c, id) ==
  IF editing[c] = id THEN <<>>
  ELSE <<NewTask(c, "start", "suspend", id, bindings[id], "suspendBinding", "")>>

\* An editor box that stays clickable, and starts, while its session is open.
OnClick_StartsAnyway(target) ==
  IF target[1] = "editor"
    THEN <<NewTask(target[2], "start", "suspend", target[2], bindings[target[2]],
                   "suspendBinding", "")>>
  ELSE IF target[1] = "reset" /\ ~isUpdating(target[2])
    THEN <<NewTask(target[2], "reset", "reset", target[2], "", "resetBinding", "")>>
  ELSE <<>>

\* The React onClick of the element clicked, which runs before the window
\* listeners: the idle editor box starts recording, the reset button resets.
OnClick(target) ==
  IF target[1] = "editor" /\ editing[target[2]] # target[2]
    THEN startRecording(target[2], target[2])
  ELSE IF target[1] = "reset" /\ ~isUpdating(target[2])
    THEN <<NewTask(target[2], "reset", "reset", target[2], "", "resetBinding", "")>>
  ELSE <<>>

CallsOf(ts) ==
  [i \in 1..Len(ts) |-> Call(ts[i].hist[1].op, ts[i].id, ts[i].hist[1].val)]

Click(target, seen, limit) ==
  LET first == OnClick(target)
      nStart == Len(SelectSeq(first, LAMBDA t : t.kind = "start"))
      nReset == Len(SelectSeq(first, LAMBDA t : t.kind = "reset"))
  IN /\ starts + nStart <= limit
     /\ resets + nReset <= MaxResets
     /\ Deliver([c \in Ids |-> IF Listening(c) THEN handleClickOutside(c, target)
                               ELSE NoEffect(c)],
                first, CallsOf(first),
                IF seen THEN Event("click", target[1], FALSE) ELSE NoEvent,
                [c \in Ids |-> TrackClick(sess[c], c, target)])
     /\ starts' = starts + nStart
     /\ resets' = resets + nReset
     /\ UNCHANGED <<bindings, osType, held, used>>

\* Where control goes when the call awaited at pc rejects: "continue" past
\* a .catch(console.error) on the call itself, "catch" into the enclosing
\* try's catch block, "escape" out of the handler as an unhandled rejection.
OnReject(kind, pc) ==
  CASE pc \in {"suspend", "resume"} -> "continue"
    [] pc \in {"update", "revert"} -> "catch"
    [] OTHER -> "continue"

\* The end of a session that keeps the snapshot.
EndSession_KeepsSnapshot(c) ==
  /\ editing' = [editing EXCEPT ![c] = NULL]
  /\ keyPressed' = [keyPressed EXCEPT ![c] = <<>>]
  /\ recordedKeys' = [recordedKeys EXCEPT ![c] = <<>>]
  /\ originalBinding' = originalBinding

\* setEditingShortcutId(null); setKeyPressed([]); setRecordedKeys([]);
\* setOriginalBinding("")
EndSession(c) ==
  /\ editing' = [editing EXCEPT ![c] = NULL]
  /\ keyPressed' = [keyPressed EXCEPT ![c] = <<>>]
  /\ recordedKeys' = [recordedKeys EXCEPT ![c] = <<>>]
  /\ originalBinding' = [originalBinding EXCEPT ![c] = ""]

\* The settings store's write: a call that succeeds persists its value.
BackendEffect(t, ok) ==
  IF ok /\ t.pc \in {"update", "revert"}
    THEN [bindings EXCEPT ![t.id] = t.hist[Len(t.hist)].val]
  ELSE IF ok /\ t.pc = "reset"
    THEN [bindings EXCEPT ![t.id] = DefaultBinding]
  ELSE bindings

Settle(t, ok) ==
  [t EXCEPT !.hist[Len(t.hist)].res = IF ok THEN "ok" ELSE "failed"]

Await(t, pc, op, val) ==
  [t EXCEPT !.pc = pc, !.hist = Append(t.hist, Issued(op, val))]

Toast(t, msg) == [t EXCEPT !.toasts = Append(t.toasts, msg)]

Finish(t) == [t EXCEPT !.pc = "done"]

\* The handler t from the return of its awaited call to its next await
\* (pc # "done") or its end (pc = "done").
Continue(t, ok) ==
  LET s == Settle(t, ok)
      way == IF ok THEN "continue" ELSE OnReject(t.kind, t.pc)
  IN IF way = "escape" THEN [Finish(s) EXCEPT !.escaped = TRUE]
     ELSE CASE t.kind = "start" -> Finish(s)
       [] t.kind = "reset" -> Finish(s)
       [] t.kind \in {"cancelKey", "cancelClick"} /\ t.pc = "update" ->
            IF way = "continue" THEN Await(s, "resume", "resumeBinding", "")
            ELSE Finish(Toast(s, "errors.restore"))
       [] t.kind \in {"commitKey", "commitMouse"} /\ t.pc = "update" ->
            IF way = "continue" THEN Await(s, "resume", "resumeBinding", "")
            ELSE IF t.orig # ""
              THEN Await(Toast(s, "errors.set"), "revert", "updateBinding", t.orig)
              ELSE Finish(Toast(s, "errors.set"))
       [] t.kind \in {"commitKey", "commitMouse"} /\ t.pc = "revert" ->
            IF way = "continue" THEN Await(s, "resume", "resumeBinding", "")
            ELSE Finish(Toast(s, "errors.reset"))
       [] OTHER -> Finish(s)

\* ClosesSession with a return at the end of each catch block.
ClosesSession_ReturnInCatch(t) ==
  /\ IsCancel(t) \/ IsCommit(t)
  /\ ~t.escaped
  /\ t.toasts = <<>>

\* Whether the handler's end runs the four state setters that close the
\* session (every cancel and commit path that returns normally).
ClosesSession(t) ==
  /\ IsCancel(t) \/ IsCommit(t)
  /\ ~t.escaped

RemoveAt(seq, i) == SubSeq(seq, 1, i - 1) \o SubSeq(seq, i + 1, Len(seq))

BackendReturn(i, ok) ==
  LET t == tasks[i]
      n == Continue(t, ok)
  IN /\ bindings' = BackendEffect(t, ok)
     /\ IF n.pc # "done"
        THEN /\ tasks' = [tasks EXCEPT ![i] = n]
             /\ UNCHANGED <<editing, keyPressed, recordedKeys, originalBinding,
                            sess>>
        ELSE /\ tasks' = RemoveAt(tasks, i)
             /\ IF n.kind = "start" /\ ~n.escaped
                THEN /\ originalBinding' = [originalBinding EXCEPT ![n.comp] = n.orig]
                     /\ editing' = [editing EXCEPT ![n.comp] = n.id]
                     /\ keyPressed' = [keyPressed EXCEPT ![n.comp] = <<>>]
                     /\ recordedKeys' = [recordedKeys EXCEPT ![n.comp] = <<>>]
                     /\ sess' = [sess EXCEPT ![n.comp] = NewSession]
                ELSE IF ClosesSession(n)
                THEN /\ EndSession(n.comp)
                     /\ sess' = [sess EXCEPT ![n.comp] = NoSession]
                ELSE UNCHANGED <<editing, keyPressed, recordedKeys,
                                 originalBinding, sess>>
     /\ LET calls == IF Len(n.hist) > Len(t.hist)
                      THEN <<Call(n.hist[Len(n.hist)].op, n.id,
                                  n.hist[Len(n.hist)].val)>>
                      ELSE <<>>
        IN last' = [NoLast EXCEPT
                      !.calls = calls,
                      !.open = IF calls = <<>> THEN {} ELSE Open,
                      !.task = IF n.pc = "done" THEN n ELSE NoTask]
     /\ UNCHANGED <<osType, held, used, starts, resets, probe, ui>>

NoProbe == [fn |-> "none", e |-> KeyEvent("", "", 0, 0), os |-> "unknown", out |-> ""]

\* The recorder after its components are mounted.
InitRecorder ==
  /\ bindings \in InitBindings
  /\ osType = "linux"
  /\ editing = [c \in Ids |-> NULL]
  /\ keyPressed = [c \in Ids |-> <<>>]
  /\ recordedKeys = [c \in Ids |-> <<>>]
  /\ originalBinding = [c \in Ids |-> ""]
  /\ tasks = <<>>
  /\ held = {}
  /\ used = {}
  /\ starts = 0
  /\ resets = 0
  /\ last = NoLast
  /\ sess = [c \in Ids |-> NoSession]

\* The online-provider settings form.  Before the settings are loaded the
\* selected provider is "openai" and every saved value reads as absent.
Providers == {"openai", "groq"}

ApiKeys == {"", "sk-1", "sk-2"}

ModelIds == {"whisper-1", "whisper-large-v3-turbo", "whisper-large-v3"}

NoFormEvent == [op |-> "none", arg |-> ""]

\* settings (loaded, provider, keys, models), the local edit buffer
\* apiKeyInput, the updateSetting calls in flight, and the event just
\* handled with the calls it issued.
InitForm ==
  [loaded |-> FALSE,
   provider |-> "openai",
   keys |-> [p \in Providers |-> ""],
   models |-> [p \in Providers |-> ""],
   apiKeyInput |-> "",
   pending |-> <<>>,
   saves |-> 0,
   ev |-> NoFormEvent,
   calls |-> <<>>]

\* Channels of smoothedLevelsRef (Array(16) in the code) and how many of
\* them are displayed (slice(0, 9) in the code).
NumChannels == 2
ShownChannels == 1

\* The overlay's level meter after n mic-level batches.  A value v stands
\* for the number v / 10^n, which is exact for the smoothing's weights;
\* before holds the previous levels on the same scale, first the targets of
\* the first batch and mode what the batches since have been.
InitMeter ==
  [n |-> 0,
   smoothed |-> [i \in 1..NumChannels |-> 0],
   levels |-> [i \in 1..ShownChannels |-> 0],
   before |-> [i \in 1..ShownChannels |-> 0],
   first |-> [i \in 1..NumChannels |-> 0],
   mode |-> "none"]

\* type OverlayState
OverlayStates == {"recording", "transcribing"}

\* The overlay as first rendered: isVisible and state, the payloads of the
\* show-overlay handlers awaiting syncLanguageFromSettings, the number of
\* show and hide events delivered, and the last event and last show payload.
InitOverlay ==
  [isVisible |-> FALSE,
   state |-> "recording",
   syncing |-> <<>>,
   delivered |-> 0,
   lastEvent |-> "none",
   lastShow |-> "none"]

\* The components that subscribe to backend events: the recording overlay
\* and the translate-to-english toggle.
Components == {"overlay", "translate"}

\* No component mounted yet: gen counts the mounts of each component, subs
\* lists the subscriptions asked of the backend's event bus.
InitUi ==
  [mounted |-> [c \in Components |-> FALSE],
   gen |-> [c \in Components |-> 0],
   subs |-> <<>>,
   form |-> InitForm,
   meter |-> InitMeter,
   overlay |-> InitOverlay]

Init ==
  /\ InitRecorder
  /\ probe = NoProbe
  /\ ui = InitUi

\* The user works on the first binding with the keyboard: every key, that
\* binding's editor box, and clicks elsewhere.
Next ==
  \/ \E e \in RecKeys, repeat \in BOOLEAN : KeyDown(e, repeat, FALSE)
  \/ \E e \in RecKeys : KeyUp(e, FALSE)
  \/ \E target \in OwnTargets : Click(target, FALSE, MaxOwnStarts)
  \/ \E i \in 1..Len(tasks), ok \in BOOLEAN : BackendReturn(i, ok)

Spec == Init /\ [][Next]_vars

\* The user works on both bindings and their reset buttons, with one key.
NextBoth ==
  \/ \E e \in OneKey, repeat \in BOOLEAN : KeyDown(e, repeat, FALSE)
  \/ \E e \in OneKey : KeyUp(e, FALSE)
  \/ \E target \in Targets : Click(target, FALSE, MaxStarts)
  \/ \E i \in 1..Len(tasks), ok \in BOOLEAN : BackendReturn(i, ok)

SpecBoth == Init /\ [][NextBoth]_vars

\* The user works on the first binding with one key and Escape; auto-repeat
\* key-downs are remembered in last.
NextRepeat ==
  \/ \E e \in FewKeys, repeat \in BOOLEAN : KeyDown(e, repeat, repeat)
  \/ \E e \in FewKeys : KeyUp(e, FALSE)
  \/ \E target \in OwnTargets : Click(target, FALSE, MaxOwnStarts)
  \/ \E i \in 1..Len(tasks), ok \in BOOLEAN : BackendReturn(i, ok)

SpecRepeat == Init /\ [][NextRepeat]_vars

\* The user works on the first binding with the mouse and one key; mouse
\* events are remembered in last.
NextMouse ==
  \/ \E e \in OneKey : KeyDown(e, FALSE, FALSE)
  \/ \E e \in OneKey : KeyUp(e, FALSE)
  \/ \E b \in RecButtons : MouseDown(b, TRUE)
  \/ \E b \in RecButtons : MouseUp(b, TRUE)
  \/ \E target \in OwnTargets : Click(target, FALSE, MaxOwnStarts)
  \/ \E i \in 1..Len(tasks), ok \in BOOLEAN : BackendReturn(i, ok)

SpecMouse == Init /\ [][NextMouse]_vars

\* The user works on the first binding with one key and may click its
\* editor box again; clicks are remembered in last.
NextClick ==
  \/ \E e \in OneKey, repeat \in BOOLEAN : KeyDown(e, repeat, FALSE)
  \/ \E e \in OneKey : KeyUp(e, FALSE)
  \/ \E target \in OwnTargets : Click(target, TRUE, MaxStarts)
  \/ \E i \in 1..Len(tasks), ok \in BOOLEAN : BackendReturn(i, ok)

SpecClick == Init /\ [][NextClick]_vars

\* ------------------------------------------------- the utility functions
\* Keyboard events the key-name functions are applied to: every code of
\* modifierMap and punctuationMap, a function key, a letter, a digit, a
\* numpad digit and two codes no table holds, with the key and numeric code
\* the browser reports with them; and events without a code.
ProbeCodes ==
  DOMAIN ModifierCodes("unknown") \cup DOMAIN NamedCodes
    \cup DOMAIN punctuationMap
    \cup {"F5", "F12", "KeyA", "KeyZ", "Digit7", "Numpad5", "IntlBackslash",
          "AudioVolumeUp"}

ProbeEvents ==
  {KeyEvent(code, "", 0, 0) : code \in ProbeCodes}
    \cup {KeyEvent("", key, 0, 0) :
            key \in {"Control", "Alt", "Shift", "Meta", "OS", "Escape", " ", "Q"}}
    \cup {KeyEvent("", "", 0, 0), KeyEvent("", "", 13, 13), KeyEvent("", "", 0, 9)}
    \cup {KeyEvent("KeyA", "Q", 81, 81), KeyEvent("ShiftLeft", "Control", 17, 17),
          KeyEvent("", "Q", 81, 81)}

\* normalizeKey(getKeyName(e, osType)), as handleKeyDown and handleKeyUp
\* compute the token of an event.
ApplyKeyName(e, os) ==
  /\ probe' = [fn |-> "keyName", e |-> e, os |-> os,
               out |-> normalizeKey(getKeyName(e, os))]
  /\ UNCHANGED <<bindings, osType, editing, keyPressed, recordedKeys,
                 originalBinding, tasks, held, used, starts, resets, last, sess,
                 ui>>

NextKeyName == \E e \in ProbeEvents, os \in OSTypes : ApplyKeyName(e, os)

SpecKeyName == Init /\ [][NextKeyName]_vars

\* ------------------------------------------------------ the properties
Resumes(t) == Len(SelectSeq(t.hist, LAMBDA h : h.op = "resumeBinding"))

\* C1: at most one binding editor has an open recording session at any
\* time, also while backend calls are in flight.  (SpecBoth)
C1_OneSessionAtATime == Cardinality(Open) <= 1

\* C2: an abort handler (Escape or outside click) that has run to its end
\* has issued resume for the binding, whatever its updateBinding call
\* returned.  (Spec)
C2_AbortAlwaysResumes == IsCancel(last.task) => Resumes(last.task) >= 1

\* C3: when the handler of a non-repeat Escape has run to its end, the
\* session is idle, the binding has the value of the snapshot and resume
\* was issued exactly once.  (Spec)
C3_EscapeCancels ==
  last.task.kind = "cancelKey" =>
    /\ editing[last.task.comp] = NULL
    /\ bindings[last.task.id] = last.task.orig
    /\ Resumes(last.task) = 1

\* The token the recorder makes of key code.
TokenOf(code) ==
  normalizeKey(getKeyName(CHOOSE e \in RecKeys : e.code = code, osType))

RECURSIVE TokensOf(_)
TokensOf(codes) ==
  IF codes = <<>> THEN <<>>
  ELSE LET front == TokensOf(SubSeq(codes, 1, Len(codes) - 1))
           tok == TokenOf(codes[Len(codes)])
       IN IF Contains(front, tok) THEN front ELSE Append(front, tok)

\* C4: while a session has seen only distinct keys pressed and then
\* released, recordedKeys holds their tokens in first-press order; the
\* commit has started at most once, and has started exactly when every key
\* pressed is released again; its updateBinding call carries the tokens
\* joined by "+" ("ctrl+a" for ControlLeft then KeyA).  (Spec)
C4_DistinctKeysCommitOnce ==
  \A c \in Ids :
    sess[c].phase \in {"pressing", "releasing"} =>
      LET h == sess[c]
          allUp == h.down # <<>> /\ \A k \in 1..Len(h.down) : h.down[k] \notin held
      IN /\ recordedKeys[c] = TokensOf(h.down)
         /\ h.commits <= 1
         /\ h.commits = 1 <=> allUp
         /\ \A i \in 1..Len(tasks) :
              tasks[i].comp = c /\ IsCommit(tasks[i]) =>
                /\ tasks[i].hist[1].op = "updateBinding"
                /\ tasks[i].hist[1].val = join(TokensOf(h.down), "+")
                /\ h.down = <<"ControlLeft", "KeyA">> =>
                     tasks[i].hist[1].val = "ctrl+a"

\* C5: a commit handler whose updateBinding call failed, with a snapshot
\* to roll back to, has at its end sent updateBinding with the snapshot,
\* attempted resume and shown exactly one error, or two distinct errors if
\* the revert failed as well.  (Spec)
C5_FailedCommitRollsBack ==
  LET t == last.task IN
  IsCommit(t) /\ t.orig # "" /\ t.hist[1].res = "failed" =>
    /\ Len(t.hist) >= 2
    /\ t.hist[2].op = "updateBinding" /\ t.hist[2].val = t.orig
    /\ Resumes(t) >= 1
    /\ t.hist[2].res = "ok" => Len(t.toasts) = 1
    /\ t.hist[2].res = "failed" =>
         Len(t.toasts) = 2 /\ t.toasts[1] # t.toasts[2]

\* C6: when a commit or cancel handler has run to its end, whichever of
\* its calls failed, its editor is idle (no id active, keyPressed and
\* recordedKeys empty, snapshot cleared) and no rejection left the handler
\* unhandled.  (Spec)
C6_FailurePathsEndIdle ==
  LET t == last.task IN
  IsCommit(t) \/ IsCancel(t) =>
    /\ editing[t.comp] = NULL
    /\ keyPressed[t.comp] = <<>>
    /\ recordedKeys[t.comp] = <<>>
    /\ originalBinding[t.comp] = ""
    /\ ~t.escaped

\* A commit whose update and revert both failed has just ended.
C6_Witness ==
  /\ last.task.kind = "commitKey"
  /\ last.task.toasts = <<"errors.set", "errors.reset">>
  /\ editing[last.task.comp] = NULL

\* C7: no updateBinding or resetBinding call for a binding is issued while
\* a session for a different binding is open.  (SpecBoth)
C7_NoWriteWhileOtherOpen ==
  \A k \in 1..Len(last.calls) :
    last.calls[k].op \in {"updateBinding", "resetBinding"} =>
      \A c \in last.open : editing[c] = last.calls[k].id \/ c = last.calls[k].id

\* C8: an auto-repeat key-down, Escape included, changes nothing of the
\* recorder (session, keyPressed, recordedKeys, snapshot, handlers in
\* flight, bindings) and issues no backend call.  (SpecRepeat)
C8_RepeatIgnored ==
  [][last'.ev.op = "keydown" /\ last'.ev.repeat =>
       /\ UNCHANGED <<editing, keyPressed, recordedKeys, originalBinding,
                      tasks, bindings>>
       /\ last'.calls = <<>>]_vars

\* An auto-repeat Escape has arrived in an open session with a key held.
C8_Witness ==
  /\ last.ev = Event("keydown", "Escape", TRUE)
  /\ \E c \in Open : keyPressed[c] # <<>>

\* C9: a mouse-down or mouse-up of button 0, 1 or 2 changes neither
\* keyPressed nor recordedKeys and starts no commit; a mouse-down of button
\* n >= 3 adds the token "mouse" n+1 ("mouse4" for button 3) to both in
\* every open session.  (SpecMouse)
C9_MouseButtons ==
  [][/\ last'.ev.op \in {"mousedown", "mouseup"} /\ last'.ev.arg < 3 =>
          /\ UNCHANGED <<keyPressed, recordedKeys, tasks, editing>>
          /\ last'.calls = <<>>
     /\ last'.ev.op = "mousedown" /\ last'.ev.arg >= 3 =>
          LET tok == "mouse" \o ToString(last'.ev.arg + 1) IN
          /\ last'.ev.arg = 3 => tok = "mouse4"
          /\ \A c \in Open :
               /\ keyPressed'[c] = Append(keyPressed[c], tok)
               /\ recordedKeys'[c] =
                    IF Contains(recordedKeys[c], tok) THEN recordedKeys[c]
                    ELSE Append(recordedKeys[c], tok)]_vars

\* Button 3 went down in an open session and is its only token.
C9_Witness ==
  /\ last.ev = Event("mousedown", 3, FALSE)
  /\ \E c \in Open : keyPressed[c] = <<"mouse4">> /\ recordedKeys[c] = <<"mouse4">>

ModifierPairs == {"Shift", "Control", "Alt", "Meta"}

\* C10: on every OS type the left and the right physical key of each
\* modifier pair get the same token from getKeyName followed by
\* normalizeKey.  (SpecKeyName)
C10_LeftRightSameToken ==
  \A m \in ModifierPairs :
    probe.fn = "keyName" /\ probe.e.code = m \o "Left" =>
      probe.out =
        normalizeKey(getKeyName([probe.e EXCEPT !.code = m \o "Right"], probe.os))

\* The left Alt key was named on macOS.
C10_Witness ==
  /\ probe.fn = "keyName"
  /\ probe.e.code = "AltLeft"
  /\ probe.os = "macos"
  /\ probe.out = "option"

MetaCodes == {"MetaLeft", "MetaRight", "OSLeft", "OSRight"}

AltCodes == {"AltLeft", "AltRight"}

\* C11: the meta/OS key is named "command" on macos and "super" on every
\* other OS type, and the alt key "option" on macos and "alt" otherwise,
\* both when the event has a code and when it only has a key.  (SpecKeyName)
C11_MetaAltTokens ==
  probe.fn = "keyName" =>
    /\ \/ probe.e.code \in MetaCodes
       \/ probe.e.code = "" /\ probe.e.key \in {"Meta", "OS"}
       => probe.out = IF probe.os = "macos" THEN "command" ELSE "super"
    /\ \/ probe.e.code \in AltCodes
       \/ probe.e.code = "" /\ probe.e.key = "Alt"
       => probe.out = IF probe.os = "macos" THEN "option" ELSE "alt"

\* ------------------------------------------------------ chord strings
\* Tokens in one recorded chord.
MaxChord == 2

\* The tokens the recorder can put into recordedKeys on OS type os.
ChordEvents ==
  {e \in ProbeEvents :
     \/ e.code \in {"ControlLeft", "ShiftRight", "AltLeft", "MetaRight", "KeyA",
                    "Digit7", "F12", "Numpad5", "NumpadAdd", "PageUp", "Equal",
                    "Minus", "Space", "AudioVolumeUp"}
     \/ e.code = "" /\ (e.key \in {"OS", "Q"} \/ e.keyCode = 13)}

ChordTokens(os) ==
  {normalizeKey(getKeyName(e, os)) : e \in ChordEvents}
    \cup {getMouseButtonName(b) : b \in {3, 4, 9}}

\* The values of recordedKeys: duplicate-free sequences of tokens.
Chords(os) ==
  UNION {{keys \in [1..n -> ChordTokens(os)] :
            \A i, j \in 1..n : keys[i] = keys[j] => i = j} : n \in 1..MaxChord}

\* A recorded chord before it is composed and displayed.
InitChord ==
  /\ InitRecorder
  /\ \E os \in OSTypes : \E keys \in Chords(os) :
       probe = [fn |-> "recorded", e |-> keys, os |-> os, out |-> <<>>]
  /\ ui = InitUi

RecorderVars ==
  <<bindings, osType, editing, keyPressed, recordedKeys, originalBinding,
    tasks, held, used, starts, resets, last, sess>>

\* recordedKeys.join("+") as handleKeyUp composes the chord, and
\* current_binding.split("+") as the editor box reads it back.
ApplySerialize ==
  /\ probe.fn = "recorded"
  /\ probe' = [probe EXCEPT !.fn = "serialized",
                 !.out = split(join(probe.e, "+"), "+")]
  /\ UNCHANGED <<RecorderVars, ui>>

\* ---------------------------------------------------------------- display
\* String.prototype.trim that removes nothing.
trim_None(s) == s

\* String.prototype.trim, for strings whose only white space is " ".
RECURSIVE trim(_)
trim(s) ==
  IF s = "" THEN ""
  ELSE IF Ch(s, 1) = " " THEN trim(Rest(s, 2))
  ELSE IF Ch(s, Len(s)) = " " THEN trim(SubSeq(s, 1, Len(s) - 1))
  ELSE s

isMouseButton(inputName) ==
  LET lower == toLowerCase(inputName)
  IN \/ startsWith(lower, "mouse")
     \/ lower = "mouseleft"
     \/ lower = "mouseright"
     \/ lower = "mousemiddle"

displayNames ==
  [mouseleft |-> "Left Click",
   mouseright |-> "Right Click",
   mousemiddle |-> "Middle Click",
   mouse1 |-> "Left Click",
   mouse2 |-> "Right Click",
   mouse3 |-> "Middle Click",
   mouse4 |-> "Mouse 4",
   mouse5 |-> "Mouse 5",
   mouseforward |-> "Mouse Forward",
   mouseback |-> "Mouse Back"]

getMouseButtonDisplayName(buttonName) ==
  LET lower == toLowerCase(buttonName)
  IN IF lower \in DOMAIN displayNames THEN displayNames[lower]
     ELSE IF startsWith(lower, "mouse") /\ Len(lower) > 5
             /\ AllDigits(Rest(lower, 6))
       THEN "Mouse " \o Rest(lower, 6)
     ELSE buttonName

\* word.charAt(0).toUpperCase() + word.slice(1)
Capitalized(word) ==
  IF word = "" THEN "" ELSE UpperCh(Ch(word, 1)) \o Rest(word, 2)

formatInputDisplay(inputName) ==
  IF isMouseButton(inputName) THEN getMouseButtonDisplayName(inputName)
  ELSE LET words == split(inputName, " ")
       IN join([i \in 1..Len(words) |-> Capitalized(words[i])], " ")

\* The text of the idle editor box for the stored chord s.
Displayed(s) ==
  LET parts == split(s, "+")
  IN join([i \in 1..Len(parts) |-> formatInputDisplay(trim(parts[i]))], " + ")

\* The editor box shows the composed chord; twice is the text shown for a
\* chord that is itself a displayed text.
ApplyDisplay ==
  /\ probe.fn = "recorded"
  /\ probe' = [probe EXCEPT !.fn = "displayed",
                 !.out = [s |-> join(probe.e, "+"),
                          once |-> Displayed(join(probe.e, "+")),
                          twice |-> Displayed(Displayed(join(probe.e, "+")))]]
  /\ UNCHANGED <<RecorderVars, ui>>

NextChord == ApplySerialize \/ ApplyDisplay

SpecChord == InitChord /\ [][NextChord]_vars

\* C12: splitting on "+" the string made by joining a recorded chord's
\* tokens with "+" gives back the same tokens in the same order.
\* (SpecChord)
C12_JoinSplitRoundTrip ==
  probe.fn = "serialized" =>
    /\ probe.out = probe.e
    /\ probe.e = <<"ctrl", "a">> => probe.out = <<"ctrl", "a">>

\* C13: displaying a composed chord (split on "+", trim and
\* formatInputDisplay each part, rejoin with " + ") and displaying the
\* result again gives the same text; "mouse4" is shown as "Mouse 4" and
\* "ctrl" as "Ctrl".  (SpecChord)
C13_DisplayIdempotent ==
  probe.fn = "displayed" =>
    /\ probe.out.twice = probe.out.once
    /\ probe.e = <<"mouse4">> => probe.out.once = "Mouse 4"
    /\ probe.e = <<"ctrl">> => probe.out.once = "Ctrl"

\* The chord "ctrl+mouse4" was displayed.
C13_Witness ==
  /\ probe.fn = "displayed"
  /\ probe.out.s = "ctrl+mouse4"
  /\ probe.out.once = "Ctrl + Mouse 4"
  /\ probe.out.twice = "Ctrl + Mouse 4"

\* ------------------------------------------------- event subscriptions
\* Mounts of one component in one run.
MaxMounts == 2

\* listen(event, handler) asked by mount gen of component c: pending until
\* the backend resolves the promise with the unlisten function; unlisten
\* tells that a .then(fn => fn()) is attached to the promise.
Subscription(c, gen, event) ==
  [comp |-> c, gen |-> gen, event |-> event, state |-> "pending",
   unlisten |-> FALSE]

\* The first listen of a component's effect, and the listen that
\* setupEventListeners awaits next ("" when none).
FirstEvent(c) == IF c = "overlay" THEN "show-overlay" ELSE "model-state-changed"

NextEvent(event) ==
  CASE event = "show-overlay" -> "hide-overlay"
    [] event = "hide-overlay" -> "mic-level"
    [] OTHER -> ""

\* The component mounts and its effect runs up to its first await.
Mount(c) ==
  /\ ~ui.mounted[c]
  /\ ui.gen[c] < MaxMounts
  /\ ui' = [ui EXCEPT !.mounted[c] = TRUE, !.gen[c] = @ + 1,
              !.subs = Append(@, Subscription(c, ui.gen[c] + 1, FirstEvent(c)))]
  /\ UNCHANGED <<RecorderVars, probe>>

\* The effect's cleanup.  The overlay's effect returns nothing (the cleanup
\* closure is the result of the async setupEventListeners, which the effect
\* drops), the toggle's calls the unlisten function once the promise
\* resolves.
Cleanup(c, sub) ==
  IF c = "translate" /\ sub.comp = c /\ sub.gen = ui.gen[c]
  THEN IF sub.state = "active" THEN [sub EXCEPT !.state = "removed"]
       ELSE [sub EXCEPT !.unlisten = TRUE]
  ELSE sub

Unmount(c) ==
  /\ ui.mounted[c]
  /\ ui' = [ui EXCEPT !.mounted[c] = FALSE,
              !.subs = [i \in 1..Len(@) |-> Cleanup(c, @[i])]]
  /\ UNCHANGED <<RecorderVars, probe>>

\* The backend resolves listen i: the handler is subscribed, an attached
\* unlisten runs at once, and setupEventListeners goes on to its next
\* listen, mounted or not.
Registered(i) ==
  LET sub == ui.subs[i]
      done == [sub EXCEPT !.state = IF sub.unlisten THEN "removed" ELSE "active"]
      more == IF sub.comp = "overlay" /\ NextEvent(sub.event) # ""
              THEN <<Subscription(sub.comp, sub.gen, NextEvent(sub.event))>>
              ELSE <<>>
  IN /\ sub.state = "pending"
     /\ ui' = [ui EXCEPT !.subs = [@ EXCEPT ![i] = done] \o more]
     /\ UNCHANGED <<RecorderVars, probe>>

NextSubs ==
  \/ \E c \in Components : Mount(c)
  \/ \E c \in Components : Unmount(c)
  \/ \E i \in 1..Len(ui.subs) : Registered(i)

SpecSubs == Init /\ [][NextSubs]_vars

SubsOf(c, state) ==
  {i \in 1..Len(ui.subs) : ui.subs[i].comp = c /\ ui.subs[i].state = state}

\* C14: when a component is unmounted and none of its registrations is
\* still pending, none of its handlers is subscribed to a backend event.
\* (SpecSubs)
C14_SubscriptionsTornDown ==
  \A c \in Components :
    ~ui.mounted[c] /\ SubsOf(c, "pending") = {} => SubsOf(c, "active") = {}

\* ------------------------------------------- online-provider settings
\* updateSetting calls of one run.
MaxSaves == 2

selectedProviderId(f) == IF f.loaded THEN f.provider ELSE "openai"

savedApiKey(f) == IF f.loaded THEN f.keys[selectedProviderId(f)] ELSE ""

\* An updateSetting(key, value) call.
Save(key, value) == [key |-> key, value |-> value]

\* isUpdating(key): a write of that setting is in flight.
isSettingUpdating(f, key) == \E i \in 1..Len(f.pending) : f.pending[i].key = key

\* The effect on [selectedProviderId, savedApiKey]: the buffer is reset to
\* the saved key whenever either has changed.
ResetBuffer(old, new) ==
  IF selectedProviderId(old) # selectedProviderId(new)
       \/ savedApiKey(old) # savedApiKey(new)
  THEN [new EXCEPT !.apiKeyInput = savedApiKey(new)]
  ELSE new

\* A handler has run: ev and calls remember it, its calls are in flight.
Handled(f, op, arg, calls) ==
  [f EXCEPT !.ev = [op |-> op, arg |-> arg], !.calls = calls,
            !.pending = @ \o calls, !.saves = @ + Len(calls)]

FormStep(g) ==
  /\ g.saves <= MaxSaves
  /\ ui' = [ui EXCEPT !.form = g]
  /\ UNCHANGED <<RecorderVars, probe>>

\* The settings arrive from the store.
LoadSettings(provider, keys, models) ==
  /\ ~ui.form.loaded
  /\ FormStep(ResetBuffer(ui.form,
       Handled([ui.form EXCEPT !.loaded = TRUE, !.provider = provider,
                               !.keys = keys, !.models = models],
               "load", "", <<>>)))

\* onChange of the API key input: setApiKeyInput(e.target.value)
handleApiKeyChange(f, text) == [f EXCEPT !.apiKeyInput = text]

ChangeApiKey(text) ==
  /\ ~isSettingUpdating(ui.form, "online_provider_api_keys")
  /\ FormStep(Handled(handleApiKeyChange(ui.form, text), "change", text, <<>>))

\* handleApiKeyBlur that writes the buffer whether it differs or not.
handleApiKeyBlur_AlwaysSaves(f) ==
  IF ~f.loaded THEN <<>>
  ELSE <<Save("online_provider_api_keys",
              [f.keys EXCEPT ![selectedProviderId(f)] = f.apiKeyInput])>>

\* The calls of handleApiKeyBlur.
handleApiKeyBlur(f) ==
  IF ~f.loaded THEN <<>>
  ELSE IF f.apiKeyInput # savedApiKey(f)
    THEN <<Save("online_provider_api_keys",
                [f.keys EXCEPT ![selectedProviderId(f)] = f.apiKeyInput])>>
  ELSE <<>>

BlurApiKey ==
  /\ ~isSettingUpdating(ui.form, "online_provider_api_keys")
  /\ FormStep(Handled(ui.form, "blur", "", handleApiKeyBlur(ui.form)))

\* handleModelChange that sends the selected provider's model alone.
handleModelChange_OnlySelected(f, modelId) ==
  IF ~f.loaded THEN <<>>
  ELSE <<Save("online_provider_models",
              [p \in Providers |-> IF p = selectedProviderId(f) THEN modelId ELSE ""])>>

\* The calls of handleModelChange.
handleModelChange(f, modelId) ==
  IF ~f.loaded THEN <<>>
  ELSE <<Save("online_provider_models",
              [f.models EXCEPT ![selectedProviderId(f)] = modelId])>>

SelectModel(modelId) ==
  /\ ~isSettingUpdating(ui.form, "online_provider_models")
  /\ FormStep(Handled(ui.form, "model", modelId, handleModelChange(ui.form, modelId)))

\* The calls of handleProviderChange.
handleProviderChange(f, providerId) == <<Save("online_provider_id", providerId)>>

SelectProvider(providerId) ==
  /\ ~isSettingUpdating(ui.form, "online_provider_id")
  /\ FormStep(Handled(ui.form, "provider", providerId,
                      handleProviderChange(ui.form, providerId)))

\* The settings store's write: a call that succeeds persists its value.
Stored(f, call) ==
  IF ~f.loaded THEN f
  ELSE IF call.key = "online_provider_api_keys" THEN [f EXCEPT !.keys = call.value]
  ELSE IF call.key = "online_provider_models" THEN [f EXCEPT !.models = call.value]
  ELSE [f EXCEPT !.provider = call.value]

\* updateSetting call i returns.
SettingReturn(i, ok) ==
  LET f == [ui.form EXCEPT !.pending = RemoveAt(@, i)]
      g == IF ok THEN Stored(f, ui.form.pending[i]) ELSE f
  IN FormStep(ResetBuffer(ui.form, Handled(g, "return", "", <<>>)))

NextForm ==
  \/ \E provider \in Providers, keys \in [Providers -> {"", "sk-1"}],
          model \in {"", "whisper-large-v3"} :
       LoadSettings(provider, keys,
                    [p \in Providers |-> IF p = "groq" THEN model ELSE ""])
  \/ \E text \in ApiKeys : ChangeApiKey(text)
  \/ BlurApiKey
  \/ \E modelId \in ModelIds : SelectModel(modelId)
  \/ \E providerId \in Providers : SelectProvider(providerId)
  \/ \E i \in 1..Len(ui.form.pending), ok \in BOOLEAN : SettingReturn(i, ok)

SpecForm == Init /\ [][NextForm]_vars

\* C15: a change of the API key field only sets the edit buffer and calls
\* nothing; a blur calls updateSetting("online_provider_api_keys", ...),
\* once, exactly when the settings are loaded and the buffer differs from
\* the saved key of the selected provider.  (SpecForm)
C15_ApiKeyCommitsOnBlur ==
  [][/\ ui'.form.ev.op = "change" =>
          /\ ui'.form.calls = <<>>
          /\ ui'.form.pending = ui.form.pending
          /\ ui'.form.apiKeyInput = ui'.form.ev.arg
          /\ ui'.form.keys = ui.form.keys
     /\ ui'.form.ev.op = "blur" =>
          /\ Len(ui'.form.calls) =
               IF ui.form.loaded
                    /\ ui.form.apiKeyInput # ui.form.keys[ui.form.provider]
               THEN 1 ELSE 0
          /\ \A k \in 1..Len(ui'.form.calls) :
               ui'.form.calls[k].key = "online_provider_api_keys"]_vars

\* A blur with an edited buffer has sent the keys.
C15_Witness ==
  /\ ui.form.ev.op = "blur"
  /\ ui.form.loaded
  /\ ui.form.apiKeyInput = "sk-2"
  /\ Len(ui.form.calls) = 1
  /\ ui.form.calls[1].key = "online_provider_api_keys"

\* ---------------------------------------------------------- level meter
\* mic-level batches of one run, and the levels a payload may hold.
MaxBatches == 4

MicLevels == {0, 3}

\* prev * 0.7 + target * 0.3, in tenths.
PrevWeight == 7
TargetWeight == 3
WeightScale == 10

RECURSIVE Pow(_, _)
Pow(b, n) == IF n = 0 THEN 1 ELSE b * Pow(b, n - 1)

\* newLevels[i] || 0: an absent entry counts as 0.
TargetOf(newLevels, i) == IF i <= Len(newLevels) THEN newLevels[i] ELSE 0

\* The smoothing with a target weight that lets the sum of weights pass 1.
Smoothed_HeavyTarget(prev, target, n) ==
  PrevWeight * prev + (TargetWeight + 1) * target * Pow(WeightScale, n)

\* prev * 0.7 + target * 0.3 for prev on the scale 10^n, on the scale
\* 10^(n+1).
Smoothed(prev, target, n) ==
  PrevWeight * prev + TargetWeight * target * Pow(WeightScale, n)

\* What the batches have been so far.
ModeAfter(m, targets) ==
  IF m.n = 0 THEN "first"
  ELSE IF m.mode \in {"first", "constant"} /\ targets = m.first THEN "constant"
  ELSE IF m.mode \in {"first", "impulse"} /\ \A i \in 1..NumChannels : targets[i] = 0
    THEN "impulse"
  ELSE "mixed"

\* The mic-level listener.
MicLevel(newLevels) ==
  LET m == ui.meter
      targets == [i \in 1..NumChannels |-> TargetOf(newLevels, i)]
      smoothed == [i \in 1..NumChannels |-> Smoothed(m.smoothed[i], targets[i], m.n)]
  IN /\ m.n < MaxBatches
     /\ ui' = [ui EXCEPT !.meter =
                 [n |-> m.n + 1,
                  smoothed |-> smoothed,
                  levels |-> SubSeq(smoothed, 1, ShownChannels),
                  before |-> [i \in 1..ShownChannels |-> WeightScale * m.levels[i]],
                  first |-> IF m.n = 0 THEN targets ELSE m.first,
                  mode |-> ModeAfter(m, targets)]]
     /\ UNCHANGED <<RecorderVars, probe>>

Payloads == UNION {[1..k -> MicLevels] : k \in 0..NumChannels}

NextLevels == \E newLevels \in Payloads : MicLevel(newLevels)

SpecLevels == Init /\ [][NextLevels]_vars

\* C16: from all-zero levels, while every batch carries the same
\* non-negative input, each displayed level does not decrease from batch to
\* batch, comes closer to the input and never exceeds it; and after one
\* batch followed by zero inputs each displayed level is 0.7 times what it
\* was a batch earlier.  (SpecLevels)
C16_LevelSmoothing ==
  LET m == ui.meter
      unit == Pow(10, m.n)
  IN \A i \in 1..ShownChannels :
       /\ m.mode \in {"first", "constant"} =>
            /\ m.levels[i] >= m.before[i]
            /\ m.levels[i] <= m.first[i] * unit
            /\ m.first[i] * unit - m.levels[i] <= m.first[i] * unit - m.before[i]
            /\ m.first[i] > 0 =>
                 m.first[i] * unit - m.levels[i] < m.first[i] * unit - m.before[i]
       /\ m.mode = "impulse" => 10 * m.levels[i] = 7 * m.before[i]

\* The input 3 has arrived three times: the level is 1.971.
C16_Witness ==
  /\ ui.meter.mode = "constant"
  /\ ui.meter.n = 3
  /\ ui.meter.first[1] = 3
  /\ ui.meter.levels[1] = 1971
  /\ ui.meter.before[1] = 1530

\* ------------------------------------------- the properties, continued
\* C17: a cancel (Escape or outside click) sends updateBinding exactly when
\* the session's snapshot is not empty, with the snapshot as value; with an
\* empty snapshot it issues resume directly and no updateBinding.  (Spec)
C17_CancelWritesSnapshot ==
  [][\A c \in Ids :
       LET started == {k \in (Len(tasks) + 1)..Len(tasks') :
                         tasks'[k].comp = c /\ IsCancel(tasks'[k])}
           closed == editing[c] # NULL /\ editing'[c] = NULL
                       /\ last'.task = NoTask
           mine == SelectSeq(last'.calls, LAMBDA x : x.id = editing[c])
       IN started # {} \/ closed =>
            /\ originalBinding[c] # "" =>
                 mine = <<Call("updateBinding", editing[c], originalBinding[c])>>
            /\ originalBinding[c] = "" =>
                 mine = <<Call("resumeBinding", editing[c], "")>>]_vars

\* An outside click has cancelled a session that had no snapshot.
C17_Witness ==
  /\ last.calls = <<Call("resumeBinding", "transcribe", "")>>
  /\ last.task = NoTask
  /\ tasks = <<>>
  /\ editing["transcribe"] = NULL
  /\ bindings["transcribe"] = ""

\* C18: when startRecording has run to its end, after waiting for its
\* suspend call and whatever that call returned, the session is open, the
\* snapshot is the binding's chord at that moment, and keyPressed and
\* recordedKeys are empty.  (SpecBoth)
C18_StartSnapshotsBinding ==
  LET t == last.task IN
  t.kind = "start" =>
    /\ Len(t.hist) = 1
    /\ t.hist[1].op = "suspendBinding"
    /\ t.hist[1].res \in {"ok", "failed"}
    /\ editing[t.comp] = t.id
    /\ originalBinding[t.comp] = bindings[t.id]
    /\ keyPressed[t.comp] = <<>>
    /\ recordedKeys[t.comp] = <<>>

IsPrefix(s, t) == Len(s) <= Len(t) /\ SubSeq(t, 1, Len(s)) = s

NoDuplicate(s) == \A i, j \in 1..Len(s) : s[i] = s[j] => i = j

\* C19: while a session stays open recordedKeys only grows at its end, by
\* one token at a time, and holds no token twice; a press of a token that
\* is not held adds it to keyPressed and appends it to recordedKeys unless
\* it is there already, and nothing else changes recordedKeys.  (SpecBoth)
C19_RecordedAppendOnly ==
  [][\A c \in Ids :
       editing[c] # NULL /\ editing'[c] # NULL =>
         LET kp == keyPressed[c]
             rk == recordedKeys[c]
             pressed == Len(keyPressed'[c]) > Len(kp)
             tok == keyPressed'[c][Len(keyPressed'[c])]
         IN /\ IsPrefix(rk, recordedKeys'[c])
            /\ NoDuplicate(recordedKeys'[c])
            /\ recordedKeys'[c] # rk => pressed
            /\ pressed =>
                 /\ ~Contains(kp, tok)
                 /\ keyPressed'[c] = Append(kp, tok)
                 /\ recordedKeys'[c] =
                      IF Contains(rk, tok) THEN rk ELSE Append(rk, tok)]_vars

\* The token of a physical input: a key code or a tracked mouse button.
InputToken(x) ==
  IF \E b \in RecButtons : ButtonInput(b) = x
  THEN getMouseButtonName(CHOOSE b \in RecButtons : ButtonInput(b) = x)
  ELSE TokenOf(x)

\* C20: a key-up or extra-mouse-up in an open session removes its token
\* from keyPressed and leaves recordedKeys as it is; it starts the commit,
\* once, exactly when keyPressed without the token is empty and
\* recordedKeys is not, and issues no backend call when another token is
\* still held.  (SpecMouse)
C20_ReleaseCommits ==
  [][\A c \in Ids :
       editing[c] # NULL /\ held' # held /\ held' \subseteq held =>
         LET tok == InputToken(CHOOSE x \in held \ held' : TRUE)
             after == SelectSeq(keyPressed[c], LAMBDA k : k # tok)
             commits == {k \in (Len(tasks) + 1)..Len(tasks') :
                           tasks'[k].comp = c /\ IsCommit(tasks'[k])}
         IN /\ keyPressed'[c] = after
            /\ recordedKeys'[c] = recordedKeys[c]
            /\ commits # {} <=> after = <<>> /\ recordedKeys[c] # <<>>
            /\ Cardinality(commits) <= 1
            /\ after # <<>> => last'.calls = <<>>
            /\ commits # {} =>
                 last'.calls = <<Call("updateBinding", editing[c],
                                      join(recordedKeys[c], "+"))>>]_vars

\* Button 3 was released last and the commit of "a+mouse4" has started.
C20_Witness ==
  /\ last.ev = Event("mouseup", 3, FALSE)
  /\ keyPressed["transcribe"] = <<>>
  /\ recordedKeys["transcribe"] = <<"a", "mouse4">>
  /\ \E i \in 1..Len(tasks) :
       /\ tasks[i].kind = "commitMouse"
       /\ tasks[i].hist = <<Issued("updateBinding", "a+mouse4")>>

\* C23: the token of a key event comes from its code when it has one,
\* whatever its key and numeric codes are; from its key when the code is
\* absent, whatever its numeric codes are; and is "unknown-<n>" exactly
\* when code and key are both absent, n being the numeric code or 0 when
\* there is none.  (SpecKeyName)
C23_CodeThenKeyThenUnknown ==
  probe.fn = "keyName" =>
    LET e == probe.e
        n == IF e.keyCode # 0 THEN e.keyCode ELSE e.which
    IN /\ e.code # "" =>
            probe.out = normalizeKey(getKeyName(KeyEvent(e.code, "", 0, 0), probe.os))
       /\ e.code = "" /\ e.key # "" =>
            probe.out = normalizeKey(getKeyName(KeyEvent("", e.key, 0, 0), probe.os))
       /\ e.code = "" /\ e.key = "" => probe.out = "unknown-" \o ToString(n)
       /\ startsWith(probe.out, "unknown-") <=> e.code = "" /\ e.key = ""
       /\ e = KeyEvent("", "", 0, 0) => probe.out = "unknown-0"
       /\ e = KeyEvent("KeyA", "Q", 81, 81) => probe.out = "a"
       /\ e = KeyEvent("", "Q", 81, 81) => probe.out = "q"

\* Code and key disagree, and both absent with no numeric code.
C23_Witness ==
  /\ probe.fn = "keyName"
  /\ probe.e = KeyEvent("ShiftLeft", "Control", 17, 17)
  /\ probe.out = "shift"

\* The codes getKeyName has no rule for.
FallthroughCodes == {"IntlBackslash", "AudioVolumeUp"}

\* C24: a code that is no function key, letter, digit, numpad digit,
\* modifier, named key or punctuation code is returned lowercased with its
\* camel-case boundaries separated by a space.  (SpecKeyName)
C24_FallthroughCamelSpaced ==
  probe.fn = "keyName" /\ probe.e.code \in FallthroughCodes =>
    getKeyName(probe.e, probe.os) = toLowerCase(CamelSpaced(probe.e.code))

\* C21: a step that starts a commit leaves no key or extra mouse button
\* held that was pressed during the committing session, also when the left
\* and the right key of one modifier were both pressed and one of them is
\* released.  (Spec)
C21_CommitAtFullRelease ==
  [][\A k \in (Len(tasks) + 1)..Len(tasks') :
       IsCommit(tasks'[k]) =>
         \A x \in held' : ~Contains(sess[tasks'[k].comp].down, x)]_vars

\* C22: a click on the editor box of the binding whose session is open
\* starts nothing: no backend call is issued, no handler is left awaiting,
\* and editingShortcutId, keyPressed, recordedKeys and originalBinding stay
\* as they are.  (SpecClick)
C22_StartWhileOpenIsNoOp ==
  [][\A c \in Ids :
       last'.ev = Event("click", "editor", FALSE) /\ c = IdSeq[1]
         /\ editing[c] = c =>
           /\ last'.calls = <<>>
           /\ tasks' = tasks
           /\ starts' = starts
           /\ editing' = editing
           /\ keyPressed' = keyPressed
           /\ recordedKeys' = recordedKeys
           /\ originalBinding' = originalBinding]_vars

\* The open editor box was clicked with the key A recorded and held.
C22_Witness ==
  /\ last.ev = Event("click", "editor", FALSE)
  /\ editing["transcribe"] = "transcribe"
  /\ keyPressed["transcribe"] = <<"a">>
  /\ recordedKeys["transcribe"] = <<"a">>
  /\ originalBinding["transcribe"] = "f5"

\* ------------------------------------------------- overlay visibility
\* show-overlay and hide-overlay events of one run.
MaxOverlayEvents == 4

\* The overlay's handler of event is subscribed.
Subscribed(event) ==
  \E i \in 1..Len(ui.subs) :
    /\ ui.subs[i].comp = "overlay"
    /\ ui.subs[i].event = event
    /\ ui.subs[i].state = "active"

\* show-overlay: the handler runs up to its await of the language sync.
ShowOverlay(payload) ==
  /\ Subscribed("show-overlay")
  /\ ui.overlay.delivered < MaxOverlayEvents
  /\ ui' = [ui EXCEPT !.overlay =
              [@ EXCEPT !.syncing = Append(@, payload),
                        !.delivered = @ + 1,
                        !.lastEvent = "show-overlay",
                        !.lastShow = payload]]
  /\ UNCHANGED <<RecorderVars, probe>>

\* hide-overlay: setIsVisible(false)
HideOverlay ==
  /\ Subscribed("hide-overlay")
  /\ ui.overlay.delivered < MaxOverlayEvents
  /\ ui' = [ui EXCEPT !.overlay =
              [@ EXCEPT !.isVisible = FALSE,
                        !.delivered = @ + 1,
                        !.lastEvent = "hide-overlay"]]
  /\ UNCHANGED <<RecorderVars, probe>>

\* The language sync awaited by show handler i resolves: the handler goes
\* on to setState(overlayState) and setIsVisible(true).
SyncReturn(i) ==
  /\ ui' = [ui EXCEPT !.overlay =
              [@ EXCEPT !.syncing = RemoveAt(@, i),
                        !.state = ui.overlay.syncing[i],
                        !.isVisible = TRUE]]
  /\ UNCHANGED <<RecorderVars, probe>>

NextOverlay ==
  \/ Mount("overlay")
  \/ \E i \in 1..Len(ui.subs) : Registered(i)
  \/ \E payload \in OverlayStates : ShowOverlay(payload)
  \/ HideOverlay
  \/ \E i \in 1..Len(ui.overlay.syncing) : SyncReturn(i)

SpecOverlay == Init /\ [][NextOverlay]_vars

\* C25: when no show-overlay handler is awaiting, the overlay is visible
\* exactly if the last event delivered was show-overlay, and after a
\* show-overlay its state is the payload of the last one.  (SpecOverlay)
C25_VisibilityFollowsLastEvent ==
  ui.overlay.syncing = <<>> /\ ui.overlay.delivered > 0 =>
    /\ ui.overlay.isVisible <=> ui.overlay.lastEvent = "show-overlay"
    /\ ui.overlay.lastShow # "none" => ui.overlay.state = ui.overlay.lastShow

\* C26: while a session is open every token of keyPressed is in
\* recordedKeys and neither holds a token twice; while none is open
\* keyPressed and recordedKeys are empty and originalBinding is "".
\* (SpecMouse)
C26_HeldWithinRecorded ==
  \A c \in Ids :
    /\ editing[c] # NULL =>
         /\ \A i \in 1..Len(keyPressed[c]) :
              Contains(recordedKeys[c], keyPressed[c][i])
         /\ NoDuplicate(keyPressed[c])
         /\ NoDuplicate(recordedKeys[c])
    /\ editing[c] = NULL =>
         /\ keyPressed[c] = <<>>
         /\ recordedKeys[c] = <<>>
         /\ originalBinding[c] = ""

\* Two tokens recorded and only the second still held, with a snapshot.
C26_Witness ==
  /\ editing["transcribe"] = "transcribe"
  /\ originalBinding["transcribe"] = "f5"
  /\ recordedKeys["transcribe"] = <<"mouse4", "mouse6">>
  /\ keyPressed["transcribe"] = <<"mouse6">>

\* The first updateBinding of a commit of id is awaited.
Committing(id) ==
  \E i \in 1..Len(tasks) :
    /\ IsCommit(tasks[i])
    /\ tasks[i].id = id
    /\ tasks[i].pc = "update"
    /\ Len(tasks[i].hist) = 1

\* C27: while the updateBinding call of a commit is awaited, no key, mouse
\* or click event issues an updateBinding or resumeBinding call for that
\* binding, and the awaited handlers stay as they are.  (Spec)
C27_OneCommitPerSession ==
  [][\A id \in Ids :
       Committing(id) /\ IsPrefix(tasks, tasks') =>
         \A j \in 1..Len(last'.calls) :
           last'.calls[j].id = id =>
             last'.calls[j].op \notin {"updateBinding", "resumeBinding"}]_vars

\* ------------------------------------------------------ reset button
\* The user works on the first binding with one key and ends by clicking
\* its reset button, after which only the backend acts; the resetBinding
\* call succeeds.
NextReset ==
  \/ resets = 0 /\ \E e \in OneKey, repeat \in BOOLEAN : KeyDown(e, repeat, FALSE)
  \/ resets = 0 /\ \E e \in OneKey : KeyUp(e, FALSE)
  \/ resets = 0 /\ \E target \in OwnTargets : Click(target, FALSE, MaxOwnStarts)
  \/ Click(<<"reset", IdSeq[1]>>, FALSE, MaxOwnStarts)
  \/ \E i \in 1..Len(tasks), ok \in BOOLEAN :
       /\ tasks[i].kind = "reset" => ok
       /\ BackendReturn(i, ok)

SpecReset == Init /\ [][NextReset]_vars

\* C28: once the reset button of a binding was clicked and every handler
\* has run to its end, the binding has its default chord, also when the
\* click closed the binding's own open session.  (SpecReset)
C28_ResetRestoresDefault ==
  resets > 0 /\ tasks = <<>> => bindings[IdSeq[1]] = DefaultBinding

\* The startRecording calls of id whose suspendBinding is awaited.
Starting(id) ==
  {i \in 1..Len(tasks) : tasks[i].kind = "start" /\ tasks[i].id = id}

\* C29: at most one suspendBinding call of a binding is awaited at a time,
\* and none while the binding's session is open: a second click on the
\* editor box before the first suspend call has returned issues no second
\* one.  (SpecClick)
C29_SuspendOncePerSession ==
  \A id \in Ids :
    /\ Cardinality(Starting(id)) <= 1
    /\ editing[id] = id => Starting(id) = {}

\* C30: a blur of the API key field or a model selection sends nothing
\* while the settings are not loaded, and otherwise sends, under its own
\* setting key, the current settings' map with the selected provider's
\* entry replaced and every other provider's entry as it is.  (SpecForm)
C30_SaveChangesOnlySelected ==
  [][ui'.form.ev.op \in {"blur", "model"} =>
       LET blur == ui'.form.ev.op = "blur"
           current == IF blur THEN ui.form.keys ELSE ui.form.models
       IN /\ ~ui.form.loaded => ui'.form.calls = <<>>
          /\ \A k \in 1..Len(ui'.form.calls) :
               LET call == ui'.form.calls[k] IN
               /\ call.key = IF blur THEN "online_provider_api_keys"
                             ELSE "online_provider_models"
               /\ call.value[ui.form.provider] =
                    IF blur THEN ui.form.apiKeyInput ELSE ui'.form.ev.arg
               /\ \A p \in Providers \ {ui.form.provider} :
                    call.value[p] = current[p]]_vars

\* A model was chosen for openai while groq has a saved model.
C30_Witness ==
  /\ ui.form.ev = [op |-> "model", arg |-> "whisper-1"]
  /\ ui.form.provider = "openai"
  /\ Len(ui.form.calls) = 1
  /\ ui.form.calls[1].value =
       [p \in Providers |-> IF p = "groq" THEN "whisper-large-v3" ELSE "whisper-1"]
====
